---- MODULE Spec2Model ----
(***************************************************************************)
(* The message relay of src/sn0w.py (class MessageHolder): a process-wide   *)
(* store `messages`, a `stash`, and a `cancelled` flag, written by          *)
(* addMessage (the request-handler context) and polled by waitForMessage    *)
(* (node-execution contexts).  The relay takes no lock, so each access of   *)
(* a MessageHolder attribute is one step and the contexts interleave        *)
(* between steps.  `cls.messages = {}` binds the attribute to a NEW dict:   *)
(* a context that loaded the attribute before still holds the old dict.     *)
(*                                                                         *)
(* Beside the relay: ConfigReader (the settings file, resolved at module    *)
(* load and read by get_setting) with the specification SpecConfig, and     *)
(* Utility.image_batch with the specification SpecBatch.                    *)
(***************************************************************************)
EXTENDS Integers, Sequences, FiniteSets, TLC

\* ------------------------------------------------------------------ bounds
MaxMsgs == 3      \* addMessage calls in one run of the one-waiter specification
RaceMsgs == 2     \* addMessage calls in one run of the two-waiter specification
MaxLen == 4       \* longest payload the parsing specification enumerates
MaxImages == 3    \* keyword arguments of one image_batch call

\* ------------------------------------------------------------- identifiers
Waiters == {"w1", "w2"}            \* node-execution contexts calling waitForMessage
WILDCARD == "-1"                   \* the reserved key of line 317 / 325
WaitIds == {"1", "2"}              \* str(id) of the waits
Keys == WaitIds \cup {WILDCARD}    \* str(id) of the addMessage calls
StashKeys == {"s"}                 \* keys a collaborator keeps in the stash

\* ------------------------------------------------- payloads (Python strings)
\* A payload is a sequence of one-character strings.
Digits == {"0", "1", "2", "3", "4", "5", "6", "7", "8", "9"}
Space == {" "}
Alphabet == {"1", "2", ",", " ", "a", "-"}

RECURSIVE StringsOfLen(_)
StringsOfLen(n) ==
    IF n = 0 THEN {<<>>}
    ELSE {Append(s, c) : s \in StringsOfLen(n - 1), c \in Alphabet}

StringsUpTo(n) == UNION {StringsOfLen(k) : k \in 0..n}

\* The payloads the relay specification sends: empty, numeric, non-numeric.
Payloads == {<<>>, <<"4", "2">>, <<"a">>}
RacePayloads == {<<>>, <<"4", "2">>}
\* The payloads of the documented parsing examples: "1, 2,3", "abc", "42", "x".
Examples == {<<"1", ",", " ", "2", ",", "3">>, <<"a", "b", "c">>, <<"4", "2">>, <<"x">>}

\* An entry of a dict: the payload, the serial number of the addMessage call
\* that stored it (tag 0: no entry, Python's None) and the serial number of
\* the entry it overwrote (0: none).
None == [val |-> <<>>, tag |-> 0, over |-> 0]
Entry(v, t, o) == [val |-> v, tag |-> t, over |-> o]
EmptyDict == [k \in Keys |-> None]
Has(d, k) == d[k].tag # 0
\* Python truthiness of what dict.pop(k, None) returned: None and "" are falsy.
Truthy(e) == e.tag # 0 /\ e.val # <<>>

\* ------------------------------------------------ str.strip / str.split / int
\* str.strip(): drop leading and trailing whitespace.
RECURSIVE LStrip(_)
LStrip(s) == IF s # <<>> /\ Head(s) \in Space THEN LStrip(Tail(s)) ELSE s

RECURSIVE RStrip(_)
RStrip(s) ==
    IF s # <<>> /\ s[Len(s)] \in Space THEN RStrip(SubSeq(s, 1, Len(s) - 1)) ELSE s

Strip(s) == RStrip(LStrip(s))

\* str.split(","): the parts between the commas, empty parts included.
RECURSIVE SplitFrom(_, _, _)
SplitFrom(s, i, part) ==
    IF i > Len(s) THEN <<part>>
    ELSE IF s[i] = "," THEN <<part>> \o SplitFrom(s, i + 1, <<>>)
    ELSE SplitFrom(s, i + 1, Append(part, s[i]))

Split(s) == SplitFrom(s, 1, <<>>)

DigitVal(c) ==
    CASE c = "0" -> 0 [] c = "1" -> 1 [] c = "2" -> 2 [] c = "3" -> 3 [] c = "4" -> 4
      [] c = "5" -> 5 [] c = "6" -> 6 [] c = "7" -> 7 [] c = "8" -> 8 [] c = "9" -> 9

\* int(s) accepts: whitespace, an optional sign, decimal digits, with single
\* underscores allowed between digits.  Anything else raises ValueError.
Unsigned(t) == IF t # <<>> /\ Head(t) \in {"+", "-"} THEN Tail(t) ELSE t

IntAccepts(s) ==
    LET u == Unsigned(Strip(s))
    IN  /\ u # <<>>
        /\ \A i \in 1..Len(u) : u[i] \in Digits \cup {"_"}
        /\ u[1] \in Digits
        /\ u[Len(u)] \in Digits
        /\ \A i \in 1..(Len(u) - 1) : ~(u[i] = "_" /\ u[i + 1] = "_")

RECURSIVE Magnitude(_, _)
Magnitude(u, acc) ==
    IF u = <<>> THEN acc
    ELSE IF Head(u) = "_" THEN Magnitude(Tail(u), acc)
    ELSE Magnitude(Tail(u), 10 * acc + DigitVal(Head(u)))

IntOf(s) ==
    LET t == Strip(s)
        m == Magnitude(Unsigned(t), 0)
    IN  IF t # <<>> /\ Head(t) = "-" THEN 0 - m ELSE m

\* [int(x.strip()) for x in message.split(",")] (line 328): the parts are
\* converted left to right and the first ValueError abandons the list.
RECURSIVE IntsOfParts(_)
IntsOfParts(parts) ==
    IF parts = <<>> THEN [ok |-> TRUE, ints |-> <<>>]
    ELSE IF ~IntAccepts(Strip(Head(parts))) THEN [ok |-> FALSE, ints |-> <<>>]
    ELSE LET rest == IntsOfParts(Tail(parts))
         IN  IF rest.ok
             THEN [ok |-> TRUE, ints |-> <<IntOf(Strip(Head(parts)))>> \o rest.ints]
             ELSE rest

\* A fallback of 0 / [] in place of 1 / [1].
ParseMessage_zero(msg, asList) ==
    IF asList
    THEN LET r == IntsOfParts(Split(msg))
         IN  [list |-> TRUE, ints |-> IF r.ok THEN r.ints ELSE <<>>]
    ELSE [list |-> FALSE,
          ints |-> IF IntAccepts(Strip(msg)) THEN <<IntOf(Strip(msg))>> ELSE <<0>>]

\* Lines 326-333: the value waitForMessage returns for a popped message.  A
\* returned int n is [list |-> FALSE, ints |-> <<n>>], a returned list is
\* [list |-> TRUE, ints |-> the list].
ParseMessage(msg, asList) ==
    IF asList
    THEN LET r == IntsOfParts(Split(msg))
         IN  [list |-> TRUE, ints |-> IF r.ok THEN r.ints ELSE <<1>>]
    ELSE [list |-> FALSE,
          ints |-> IF IntAccepts(Strip(msg)) THEN <<IntOf(Strip(msg))>> ELSE <<1>>]

NoResult == [list |-> FALSE, ints |-> <<>>]

\* ------------------------------------------------------------------- state
\* Python dict objects.  `cur` is the object cls.messages is bound to; a
\* waiter that loaded cls.messages holds its object in wref until it uses it.
DictIds == 1..(Cardinality(Waiters) + 1)
Tags == 1..(IF MaxMsgs > RaceMsgs THEN MaxMsgs ELSE RaceMsgs)

VARIABLES
    cur,          \* the dict object MessageHolder.messages is bound to
    dicts,        \* the contents of each dict object
    preStart,     \* per dict object: it was replaced before/by a "__start__"
    stash,        \* MessageHolder.stash (the keys it holds)
    cancelled,    \* MessageHolder.cancelled
    ppc,          \* addMessage: the line the request-handler context is at
    nadd,         \* data messages stored so far (the serial number source)
    ncancel,      \* "__cancel__" messages begun so far
    nstart,       \* "__start__" messages begun so far
    wpc,          \* waitForMessage: the step each waiter is at
    wid,          \* waitForMessage: sid = str(id)
    wasList,      \* waitForMessage: asList
    wref,         \* the dict object a waiter loaded and has not used yet (0: none)
    message,      \* waitForMessage: the local `message` (an entry)
    result,       \* what the call returned
    exact,        \* what pop(str(id), None) returned in this call
    wild,         \* what pop("-1") returned in this call
    stale,        \* the message was popped from a dict replaced by a "__start__"
    delivered,    \* per serial number: how many waits returned that message
    overwritten,  \* serial numbers of entries a later addMessage overwrote
    nfail,        \* waits that failed with Cancelled so far
    dropped,      \* serial numbers of entries the store held at a "__cancel__"
    avail         \* per waiter: its call had something to end on (see Tracked)

VARIABLES
    files,        \* the file system: what each candidate settings path holds
    portable,     \* ConfigReader.portable: "None", "True" or "False"
    cpc,          \* "load" until line 82 has run, "ready" afterwards
    loaded,       \* ConfigReader.portable as line 82 left it
    setting_id,   \* get_setting: the key the last call asked for
    atCall,       \* the file system as the last get_setting call found it
    opened,       \* the paths the last get_setting call opened
    printed,      \* print_sn0w calls made by the last ConfigReader call
    ret,          \* how the last get_setting call ended ("none": no call yet)
    kwargs,       \* image_batch: its keyword arguments, in call order
    batched       \* image_batch: how the call ended

relay == <<cur, dicts, preStart, stash, cancelled>>
producer == <<ppc, nadd, ncancel, nstart>>
waiter == <<wpc, wid, wasList, wref, message, result, exact, wild, stale>>
history == <<delivered, overwritten, nfail, dropped>>
config == <<files, portable, cpc, loaded, setting_id, atCall, opened, printed, ret>>
batch == <<kwargs, batched>>
vars == <<cur, dicts, preStart, stash, cancelled, ppc, nadd, ncancel, nstart,
          wpc, wid, wasList, wref, message, result, exact, wild, stale,
          delivered, overwritten, nfail, dropped, avail,
          files, portable, cpc, loaded, setting_id, atCall, opened, printed, ret,
          kwargs, batched>>

\* The steps at which a waiter is not inside a waitForMessage call.
Ended == {"idle", "returned", "Cancelled", "KeyError"}

\* Lines 317-318, observed from outside: since the call of waiter w began
\* there was a moment at which cls.messages held str(id) or "-1", or
\* cls.cancelled was set.  The value is kept when the call ends.
Tracked ==
    [w \in Waiters |->
        IF wpc'[w] \in Ended THEN avail[w]
        ELSE \/ wpc[w] \notin Ended /\ avail[w]
             \/ Has(dicts'[cur'], wid'[w])
             \/ Has(dicts'[cur'], WILDCARD)
             \/ cancelled']

\* The dict objects something still refers to; the others are garbage and are
\* kept empty.
Held(refs) == {refs[w] : w \in Waiters} \ {0}
Collect(ds, c, refs) ==
    [d \in DictIds |-> IF d \in Held(refs) \cup {c} THEN ds[d] ELSE EmptyDict]
Unmark(ps, c, refs) ==
    [d \in DictIds |-> IF d \in Held(refs) \cup {c} THEN ps[d] ELSE FALSE]
\* `{}`: a new dict object, one no context holds.
NewDict(refs) ==
    CHOOSE d \in DictIds \ Held(refs) : \A e \in DictIds \ Held(refs) : d <= e

\* ------------------------------------------------- ConfigReader: the files
\* Lines 25-26: the two candidate settings files.
DEFAULT_PATH == "user/default/comfy.settings.json"
PORTABLE_PATH == "ComfyUI/user/default/comfy.settings.json"
Paths == {DEFAULT_PATH, PORTABLE_PATH}

\* The keys get_setting is asked for.
SettingIds == {"sn0w.LoggingLevel", "excluded_lora_folders"}

\* What a path can hold, as far as lines 42-48 and 70-76 can tell: nothing; a
\* JSON object with some keys; JSON that is not an object; text that is not
\* JSON; bytes that are not UTF-8 text.
Absent == [kind |-> "absent", keys |-> {}]
Contents ==
    {[kind |-> k, keys |-> {}] : k \in {"absent", "array", "notjson", "notutf8"}}
        \cup {[kind |-> "object", keys |-> S] : S \in SUBSET SettingIds}
NoFiles == [p \in Paths |-> Absent]

\* The module loaded in an installation without a settings file, no
\* get_setting call made yet.
ConfigIdle ==
    /\ files = NoFiles
    /\ portable = "None"
    /\ cpc = "ready"
    /\ loaded = "None"
    /\ setting_id = "sn0w.LoggingLevel"
    /\ atCall = NoFiles
    /\ opened = {}
    /\ printed = 0
    /\ ret = "none"

\* ------------------------------------------------- image_batch: the tensors
\* A tensor is known by its shape; None is the empty shape.
NoTensor == <<>>
Tensors == {<<1, 3, 64, 64>>, <<1, 3, 64, 32>>, <<2, 3, 64, 64>>}
\* src/lora_tester.py line 103: the keyword of the i-th image.
InputNames == <<"images_a", "images_b", "images_c", "images_d", "images_e">>
NoBatch == [raised |-> "pending", text |-> "", names |-> <<>>, shape |-> <<>>]

\* No image_batch call made yet.
BatchIdle ==
    /\ kwargs = <<>>
    /\ batched = NoBatch

\* Lines 293-295: the class attributes as the class body leaves them.
InitRelay ==
    /\ cur = 1
    /\ dicts = [d \in DictIds |-> EmptyDict]
    /\ preStart = [d \in DictIds |-> FALSE]
    /\ stash = {}
    /\ cancelled = FALSE
    /\ ppc = "idle"
    /\ nadd = 0
    /\ ncancel = 0
    /\ nstart = 0
    /\ wpc = [w \in Waiters |-> "idle"]
    /\ wid = [w \in Waiters |-> "1"]
    /\ wasList = [w \in Waiters |-> FALSE]
    /\ wref = [w \in Waiters |-> 0]
    /\ message = [w \in Waiters |-> None]
    /\ result = [w \in Waiters |-> NoResult]
    /\ exact = [w \in Waiters |-> None]
    /\ wild = [w \in Waiters |-> None]
    /\ stale = [w \in Waiters |-> FALSE]
    /\ delivered = [t \in Tags |-> 0]
    /\ overwritten = {}
    /\ nfail = 0
    /\ dropped = {}
    /\ avail = [w \in Waiters |-> FALSE]

\* The relay as the module leaves it, in an installation without a settings
\* file and before any image_batch call.
Init == InitRelay /\ ConfigIdle /\ BatchIdle

\* ------------------------------------------------------------- addMessage
\* The request handlers run on one event loop and addMessage never yields to
\* it, so addMessage calls do not overlap each other; they do interleave with
\* the waiters, one attribute store at a time.

\* Line 303-304: message == "__cancel__": cls.messages = {}
addMessage_cancel(id) ==
    /\ ppc = "idle"
    /\ LET new == NewDict(wref)
       IN  /\ cur' = new
           /\ dicts' = Collect([dicts EXCEPT ![new] = EmptyDict], new, wref)
           /\ preStart' = Unmark([preStart EXCEPT ![new] = FALSE], new, wref)
    /\ ncancel' = ncancel + 1
    /\ dropped' = dropped \cup ({dicts[cur][k].tag : k \in Keys} \ {0})
    /\ ppc' = "305"
    /\ UNCHANGED <<stash, cancelled, nadd, nstart>>
    /\ UNCHANGED <<waiter, delivered, overwritten, nfail>>
    /\ avail' = Tracked
    /\ UNCHANGED <<config, batch>>

\* Line 305: cls.cancelled = True
addMessage_cancel_flag ==
    /\ ppc = "305"
    /\ cancelled' = TRUE
    /\ ppc' = "idle"
    /\ UNCHANGED <<cur, dicts, preStart, stash, nadd, ncancel, nstart>>
    /\ UNCHANGED <<waiter, history>>
    /\ avail' = Tracked
    /\ UNCHANGED <<config, batch>>

\* Line 306-307: message == "__start__": cls.messages = {}
addMessage_start(id) ==
    /\ ppc = "idle"
    /\ LET new == NewDict(wref)
           marked == [d \in DictIds |-> TRUE]
       IN  /\ cur' = new
           /\ dicts' = Collect([dicts EXCEPT ![new] = EmptyDict], new, wref)
           /\ preStart' = Unmark([marked EXCEPT ![new] = FALSE], new, wref)
    /\ nstart' = nstart + 1
    /\ ppc' = "308"
    /\ UNCHANGED <<stash, cancelled, nadd, ncancel>>
    /\ UNCHANGED <<waiter, history>>
    /\ avail' = Tracked
    /\ UNCHANGED <<config, batch>>

\* Line 308: cls.stash = {}
addMessage_start_stash ==
    /\ ppc = "308"
    /\ stash' = {}
    /\ ppc' = "309"
    /\ UNCHANGED <<cur, dicts, preStart, cancelled, nadd, ncancel, nstart>>
    /\ UNCHANGED <<waiter, history>>
    /\ avail' = Tracked
    /\ UNCHANGED <<config, batch>>

\* Line 309: cls.cancelled = False
addMessage_start_flag ==
    /\ ppc = "309"
    /\ cancelled' = FALSE
    /\ ppc' = "idle"
    /\ UNCHANGED <<cur, dicts, preStart, stash, nadd, ncancel, nstart>>
    /\ UNCHANGED <<waiter, history>>
    /\ avail' = Tracked
    /\ UNCHANGED <<config, batch>>

\* Line 311: cls.messages[str(id)] = message.  The load of cls.messages and the
\* store into it are one step: no other context rebinds cls.messages.
StoreInto(d, k, e) == [d EXCEPT ![k] = e]

addMessage_store(id, v) ==
    /\ ppc = "idle"
    /\ nadd' = nadd + 1
    /\ dicts' = [dicts EXCEPT ![cur] = StoreInto(dicts[cur], id, Entry(v, nadd + 1, dicts[cur][id].tag))]
    /\ overwritten' = IF Has(dicts[cur], id)
                      THEN overwritten \cup {dicts[cur][id].tag}
                      ELSE overwritten
    /\ UNCHANGED <<cur, preStart, stash, cancelled, ppc, ncancel, nstart>>
    /\ UNCHANGED <<waiter, delivered, nfail, dropped>>
    /\ avail' = Tracked
    /\ UNCHANGED <<config, batch>>

\* A collaborator keeps a value in the stash (the relay itself never writes it).
StashPut(k) ==
    /\ k \notin stash
    /\ stash' = stash \cup {k}
    /\ UNCHANGED <<cur, dicts, preStart, cancelled>>
    /\ UNCHANGED <<producer, waiter, history>>
    /\ avail' = Tracked
    /\ UNCHANGED <<config, batch>>

\* --------------------------------------------------------- waitForMessage

\* Line 314-316: a node-execution context calls waitForMessage(id, asList=...).
waitForMessage_call(w, id, asL) ==
    /\ wpc[w] \in Ended
    /\ wpc' = [wpc EXCEPT ![w] = "load_sid"]
    /\ wid' = [wid EXCEPT ![w] = id]
    /\ wasList' = [wasList EXCEPT ![w] = asL]
    /\ message' = [message EXCEPT ![w] = None]
    /\ result' = [result EXCEPT ![w] = NoResult]
    /\ exact' = [exact EXCEPT ![w] = None]
    /\ wild' = [wild EXCEPT ![w] = None]
    /\ stale' = [stale EXCEPT ![w] = FALSE]
    /\ UNCHANGED <<wref, relay, producer, history>>
    /\ avail' = Tracked
    /\ UNCHANGED <<config, batch>>

\* A waiter loads cls.messages (lines 317 and 325 load it four times).
LoadMessages(w, at, to) ==
    /\ wpc[w] = at
    /\ wref' = [wref EXCEPT ![w] = cur]
    /\ wpc' = [wpc EXCEPT ![w] = to]
    /\ UNCHANGED <<wid, wasList, message, result, exact, wild, stale>>
    /\ UNCHANGED <<relay, producer, history>>
    /\ avail' = Tracked
    /\ UNCHANGED <<config, batch>>

\* A test that gives up: the loop is left whether or not the key is there.
TestKey_giveup(w, at, key, found, missing) ==
    /\ wpc[w] = at
    /\ wpc' = [wpc EXCEPT ![w] = found]
    /\ wref' = [wref EXCEPT ![w] = 0]
    /\ dicts' = Collect(dicts, cur, wref')
    /\ preStart' = Unmark(preStart, cur, wref')
    /\ UNCHANGED <<cur, stash, cancelled>>
    /\ UNCHANGED <<wid, wasList, message, result, exact, wild, stale>>
    /\ UNCHANGED <<producer, history>>
    /\ avail' = Tracked
    /\ UNCHANGED <<config, batch>>

\* A waiter tests `key in <the dict it loaded>` and lets the dict go.
TestKey(w, at, key, found, missing) ==
    /\ wpc[w] = at
    /\ wpc' = [wpc EXCEPT ![w] = IF Has(dicts[wref[w]], key) THEN found ELSE missing]
    /\ wref' = [wref EXCEPT ![w] = 0]
    /\ dicts' = Collect(dicts, cur, wref')
    /\ preStart' = Unmark(preStart, cur, wref')
    /\ UNCHANGED <<cur, stash, cancelled>>
    /\ UNCHANGED <<wid, wasList, message, result, exact, wild, stale>>
    /\ UNCHANGED <<producer, history>>
    /\ avail' = Tracked
    /\ UNCHANGED <<config, batch>>

\* Line 317, left operand: sid not in cls.messages
waitForMessage_load_sid(w) == LoadMessages(w, "load_sid", "test_sid")
waitForMessage_test_sid(w) == TestKey(w, "test_sid", wid[w], "check322", "load_wild")
\* Line 317, right operand: "-1" not in cls.messages
waitForMessage_load_wild(w) == LoadMessages(w, "load_wild", "test_wild")
waitForMessage_test_wild(w) == TestKey(w, "test_wild", WILDCARD, "check322", "check318")

\* A flag check that lets the call go on whatever the flag says.
CheckCancelled_ignore(w, at, set, clear) ==
    /\ wpc[w] = at
    /\ wpc' = [wpc EXCEPT ![w] = clear]
    /\ UNCHANGED <<wid, wasList, wref, message, result, exact, wild, stale>>
    /\ UNCHANGED <<relay, producer, history>>
    /\ avail' = Tracked
    /\ UNCHANGED <<config, batch>>

\* `if cls.cancelled:` reads the flag; when it is false the loop sleeps
\* (line 321) and tests again, or the call goes on to the pop.
CheckCancelled(w, at, set, clear) ==
    /\ wpc[w] = at
    /\ wpc' = [wpc EXCEPT ![w] = IF cancelled THEN set ELSE clear]
    /\ UNCHANGED <<wid, wasList, wref, message, result, exact, wild, stale>>
    /\ UNCHANGED <<relay, producer, history>>
    /\ avail' = Tracked
    /\ UNCHANGED <<config, batch>>

\* A raise that leaves the flag set.
ClearAndRaise_keepflag(w, at) ==
    /\ wpc[w] = at
    /\ wpc' = [wpc EXCEPT ![w] = "Cancelled"]
    /\ nfail' = nfail + 1
    /\ UNCHANGED <<cur, dicts, preStart, stash, cancelled>>
    /\ UNCHANGED <<wid, wasList, wref, message, result, exact, wild, stale>>
    /\ UNCHANGED <<producer, delivered, overwritten, dropped>>
    /\ avail' = Tracked
    /\ UNCHANGED <<config, batch>>

\* `cls.cancelled = False; raise Cancelled()`
ClearAndRaise(w, at) ==
    /\ wpc[w] = at
    /\ cancelled' = FALSE
    /\ wpc' = [wpc EXCEPT ![w] = "Cancelled"]
    /\ nfail' = nfail + 1
    /\ UNCHANGED <<cur, dicts, preStart, stash>>
    /\ UNCHANGED <<wid, wasList, wref, message, result, exact, wild, stale>>
    /\ UNCHANGED <<producer, delivered, overwritten, dropped>>
    /\ avail' = Tracked
    /\ UNCHANGED <<config, batch>>

\* Lines 318-321
waitForMessage_check318(w) == CheckCancelled(w, "check318", "clear319", "load_sid")
waitForMessage_clear319(w) == ClearAndRaise(w, "clear319")
\* Lines 322-324
waitForMessage_check322(w) == CheckCancelled(w, "check322", "clear323", "load_pop")
waitForMessage_clear323(w) == ClearAndRaise(w, "clear323")

\* A pop that reads the entry and leaves it in the dict (dict.get).
PopFrom_keep(d, k) == d

\* dict.pop(k, ...): the dict without the entry.
PopFrom(d, k) == [d EXCEPT ![k] = None]

\* The call returns the parsed message (lines 326-333).
Return(w, e, from) ==
    /\ message' = [message EXCEPT ![w] = e]
    /\ result' = [result EXCEPT ![w] = ParseMessage(e.val, wasList[w])]
    /\ stale' = [stale EXCEPT ![w] = preStart[from]]
    /\ delivered' = [delivered EXCEPT ![e.tag] = @ + 1]
    /\ wpc' = [wpc EXCEPT ![w] = "returned"]

\* Line 325, left operand: cls.messages.pop(str(id), None).  The dict is
\* loaded before str(id) is called and popped after it.
waitForMessage_load_pop(w) == LoadMessages(w, "load_pop", "pop_sid")

waitForMessage_pop_sid(w) ==
    /\ wpc[w] = "pop_sid"
    /\ LET from == wref[w]
           e == dicts[from][wid[w]]
       IN  /\ exact' = [exact EXCEPT ![w] = e]
           /\ wref' = [wref EXCEPT ![w] = 0]
           /\ dicts' = Collect([dicts EXCEPT ![from] = PopFrom(dicts[from], wid[w])],
                               cur, wref')
           /\ preStart' = Unmark(preStart, cur, wref')
           /\ IF Truthy(e)
              THEN Return(w, e, from)
              ELSE /\ wpc' = [wpc EXCEPT ![w] = "load_pop_wild"]
                   /\ UNCHANGED <<message, result, stale, delivered>>
    /\ UNCHANGED <<cur, stash, cancelled, wid, wasList, wild>>
    /\ UNCHANGED <<producer, overwritten, nfail, dropped>>
    /\ avail' = Tracked
    /\ UNCHANGED <<config, batch>>

\* Line 325, right operand: cls.messages.pop("-1"), which raises KeyError
\* when the dict has no "-1".
waitForMessage_load_pop_wild(w) == LoadMessages(w, "load_pop_wild", "pop_wild")

waitForMessage_pop_wild(w) ==
    /\ wpc[w] = "pop_wild"
    /\ LET from == wref[w]
           e == dicts[from][WILDCARD]
       IN  /\ wild' = [wild EXCEPT ![w] = e]
           /\ wref' = [wref EXCEPT ![w] = 0]
           /\ dicts' = Collect([dicts EXCEPT ![from] = PopFrom(dicts[from], WILDCARD)],
                               cur, wref')
           /\ preStart' = Unmark(preStart, cur, wref')
           /\ IF Has(dicts[from], WILDCARD)
              THEN Return(w, e, from)
              ELSE /\ wpc' = [wpc EXCEPT ![w] = "KeyError"]
                   /\ UNCHANGED <<message, result, stale, delivered>>
    /\ UNCHANGED <<cur, stash, cancelled, wid, wasList, exact>>
    /\ UNCHANGED <<producer, overwritten, nfail, dropped>>
    /\ avail' = Tracked
    /\ UNCHANGED <<config, batch>>

\* ------------------------------------------------------------ specification
\* The request-handler context: at most `msgs` addMessage calls, the data
\* messages with payloads from P.
Producer(P, msgs) ==
    \/ \E id \in Keys : nadd + ncancel + nstart < msgs /\ addMessage_cancel(id)
    \/ addMessage_cancel_flag
    \/ \E id \in Keys : nadd + ncancel + nstart < msgs /\ addMessage_start(id)
    \/ addMessage_start_stash
    \/ addMessage_start_flag
    \/ \E id \in Keys, v \in P : nadd + ncancel + nstart < msgs /\ addMessage_store(id, v)

\* The node-execution contexts W, calling with asList from L.
Consumers(W, L) ==
    \/ \E w \in W, id \in WaitIds, asL \in L : waitForMessage_call(w, id, asL)
    \/ \E w \in W : waitForMessage_load_sid(w)
    \/ \E w \in W : waitForMessage_test_sid(w)
    \/ \E w \in W : waitForMessage_load_wild(w)
    \/ \E w \in W : waitForMessage_test_wild(w)
    \/ \E w \in W : waitForMessage_check318(w)
    \/ \E w \in W : waitForMessage_clear319(w)
    \/ \E w \in W : waitForMessage_check322(w)
    \/ \E w \in W : waitForMessage_clear323(w)
    \/ \E w \in W : waitForMessage_load_pop(w)
    \/ \E w \in W : waitForMessage_pop_sid(w)
    \/ \E w \in W : waitForMessage_load_pop_wild(w)
    \/ \E w \in W : waitForMessage_pop_wild(w)

\* One node-execution context (the host runs one node at a time) against the
\* request handlers and a collaborator using the stash.
Next ==
    \/ Producer(Payloads, MaxMsgs)
    \/ \E k \in StashKeys : StashPut(k)
    \/ Consumers({"w1"}, {FALSE})

Spec == Init /\ [][Next]_vars

\* Two node-execution contexts polling the relay at once.
NextRace ==
    \/ Producer(RacePayloads, RaceMsgs)
    \/ Consumers(Waiters, {FALSE})

SpecRace == Init /\ [][NextRace]_vars

\* The relay holding one message of any payload, with or without a pending
\* cancellation, and one node-execution context calling with either asList.
InitParse ==
    /\ cur = 1
    /\ \E k \in Keys, v \in StringsUpTo(MaxLen) \cup Examples :
           dicts = [d \in DictIds |-> IF d = 1 THEN StoreInto(EmptyDict, k, Entry(v, 1, 0))
                                      ELSE EmptyDict]
    /\ preStart = [d \in DictIds |-> FALSE]
    /\ stash = {}
    /\ cancelled \in BOOLEAN
    /\ ppc = "idle"
    /\ nadd = 1
    /\ ncancel = IF cancelled THEN 1 ELSE 0
    /\ nstart = 0
    /\ wpc = [w \in Waiters |-> "idle"]
    /\ wid = [w \in Waiters |-> "1"]
    /\ wasList = [w \in Waiters |-> FALSE]
    /\ wref = [w \in Waiters |-> 0]
    /\ message = [w \in Waiters |-> None]
    /\ result = [w \in Waiters |-> NoResult]
    /\ exact = [w \in Waiters |-> None]
    /\ wild = [w \in Waiters |-> None]
    /\ stale = [w \in Waiters |-> FALSE]
    /\ delivered = [t \in Tags |-> 0]
    /\ overwritten = {}
    /\ nfail = 0
    /\ dropped = {}
    /\ avail = [w \in Waiters |-> FALSE]
    /\ ConfigIdle
    /\ BatchIdle

NextParse == Consumers({"w1"}, BOOLEAN)

SpecParse == InitParse /\ [][NextParse]_vars

\* ------------------------------------------------------------ ConfigReader
\* Lines 35-54, as a function of ConfigReader.portable and the file system.
Layout(p, fs) ==
    IF p # "None" THEN p
    ELSE IF fs[DEFAULT_PATH] # Absent THEN "False"
    ELSE IF fs[PORTABLE_PATH] # Absent THEN "True"
    ELSE "None"

\* Line 82: the module calls is_comfy_portable once, while it loads.
is_comfy_portable ==
    /\ cpc = "load"
    /\ portable' = Layout(portable, files)
    /\ loaded' = portable'
    /\ printed' = IF portable = "None" /\ portable' # "None" THEN 1 ELSE 0
    /\ cpc' = "ready"
    /\ UNCHANGED <<files, setting_id, atCall, opened, ret>>
    /\ UNCHANGED <<relay, producer, waiter, history, avail, batch>>

\* Line 66: the path of the layout that was chosen.
PathOf(p) == IF p = "True" THEN PORTABLE_PATH ELSE DEFAULT_PATH

\* Lines 69-78 on a path holding c: how the call ends and how many
\* diagnostics it prints.  open() raises FileNotFoundError and json.load
\* raises JSONDecodeError, which are caught; file.read() raises
\* UnicodeDecodeError and settings.get raises AttributeError, which are not.
ReadSetting(c, id) ==
    CASE c.kind = "absent" -> [ret |-> "default", printed |-> 1]
      [] c.kind = "notjson" -> [ret |-> "default", printed |-> 1]
      [] c.kind = "notutf8" -> [ret |-> "UnicodeDecodeError", printed |-> 0]
      [] c.kind = "array" -> [ret |-> "AttributeError", printed |-> 0]
      [] c.kind = "object" ->
            [ret |-> IF id \in c.keys THEN "value" ELSE "default", printed |-> 0]

\* A get_setting that resolves the layout again when none was chosen yet.
get_setting_resolve(id) ==
    /\ cpc = "ready"
    /\ setting_id' = id
    /\ atCall' = files
    /\ portable' = Layout(portable, files)
    /\ IF portable' = "None"
       THEN /\ opened' = {}
            /\ printed' = 1
            /\ ret' = "default"
       ELSE LET out == ReadSetting(files[PathOf(portable')], id)
            IN  /\ opened' = {PathOf(portable')}
                /\ printed' = out.printed
                /\ ret' = out.ret
    /\ UNCHANGED <<files, cpc, loaded>>
    /\ UNCHANGED <<relay, producer, waiter, history, avail, batch>>

\* Lines 56-78.
get_setting(id) ==
    /\ cpc = "ready"
    /\ setting_id' = id
    /\ atCall' = files
    /\ IF portable = "None"
       THEN /\ opened' = {}
            /\ printed' = 1
            /\ ret' = "default"
       ELSE LET out == ReadSetting(files[PathOf(portable)], id)
            IN  /\ opened' = {PathOf(portable)}
                /\ printed' = out.printed
                /\ ret' = out.ret
    /\ UNCHANGED <<files, portable, cpc, loaded>>
    /\ UNCHANGED <<relay, producer, waiter, history, avail, batch>>

\* ComfyUI or the user writes, replaces or removes a settings file.
WriteFile(p, c) ==
    /\ files[p] # c
    /\ files' = [files EXCEPT ![p] = c]
    /\ UNCHANGED <<portable, cpc, loaded, setting_id, atCall, opened, printed, ret>>
    /\ UNCHANGED <<relay, producer, waiter, history, avail, batch>>

\* The module about to run line 82, in any state of the two files.
InitConfig ==
    /\ InitRelay
    /\ BatchIdle
    /\ files \in [Paths -> Contents]
    /\ portable = "None"
    /\ cpc = "load"
    /\ loaded = "None"
    /\ setting_id = "sn0w.LoggingLevel"
    /\ atCall = NoFiles
    /\ opened = {}
    /\ printed = 0
    /\ ret = "none"

NextConfig ==
    \/ is_comfy_portable
    \/ \E id \in SettingIds : get_setting(id)
    \/ \E p \in Paths, c \in Contents : WriteFile(p, c)

SpecConfig == InitConfig /\ [][NextConfig]_vars

\* ------------------------------------------------------------ image_batch
\* The positions of the keyword arguments that are not None, in call order.
Given(kw) ==
    LET IsTensor(i) == kw[i] # NoTensor
    IN  SelectSeq([i \in 1..Len(kw) |-> i], IsTensor)

\* Lines 201-202: the tensors that are not None, and their keywords.
batched_tensors(kw) == [k \in 1..Len(Given(kw)) |-> kw[Given(kw)[k]]]
image_names(kw) == [k \in 1..Len(Given(kw)) |-> InputNames[Given(kw)[k]]]

\* Lines 193-195: mismatched_images, the names of the tensors whose
\* shape[1:] differs from that of the first tensor.
check_image_dimensions(tensors, names) ==
    LET reference_dimensions == Tail(tensors[1])
        Differs(i) == Tail(tensors[i]) # reference_dimensions
        mismatched == SelectSeq([i \in 1..Len(tensors) |-> i], Differs)
    IN  [k \in 1..Len(mismatched) |-> names[mismatched[k]]]

\* torch.cat(..., dim=0): the batch sizes add up, the other dimensions stay.
RECURSIVE BatchSize(_)
BatchSize(tensors) ==
    IF tensors = <<>> THEN 0 ELSE Head(tensors)[1] + BatchSize(Tail(tensors))
Cat(tensors) == <<BatchSize(tensors)>> \o Tail(tensors[1])

\* Lines 199-210: what a call with the keyword arguments kw ends in.
image_batch(kw) ==
    IF batched_tensors(kw) = <<>>
    THEN [raised |-> "ValueError",
          text |-> "At least one input image must be provided.",
          names |-> <<>>, shape |-> <<>>]
    ELSE LET mismatched_images ==
                 check_image_dimensions(batched_tensors(kw), image_names(kw))
         IN  IF mismatched_images # <<>>
             THEN [raised |-> "ValueError",
                   text |-> "Input image dimensions do not match for images: ",
                   names |-> mismatched_images, shape |-> <<>>]
             ELSE [raised |-> "none", text |-> "",
                   names |-> <<>>, shape |-> Cat(batched_tensors(kw))]

\* A caller runs image_batch on its keyword arguments.
image_batch_call ==
    /\ batched = NoBatch
    /\ batched' = image_batch(kwargs)
    /\ UNCHANGED kwargs
    /\ UNCHANGED <<relay, producer, waiter, history, avail, config>>

\* Up to MaxImages keyword arguments, each a tensor or None.
AllKwargs == UNION {[1..n -> Tensors \cup {NoTensor}] : n \in 0..MaxImages}

InitBatch ==
    /\ InitRelay
    /\ ConfigIdle
    /\ kwargs \in AllKwargs
    /\ batched = NoBatch

NextBatch == image_batch_call

SpecBatch == InitBatch /\ [][NextBatch]_vars

\* ------------------------------------------------------------------ claims
Failed(w) == wpc[w] # "Cancelled" /\ wpc'[w] = "Cancelled"

\* C1: addMessage(k, v) followed by waitForMessage(k) returns v: a wait whose
\* pop of str(k) found the stored value neither fails nor returns another
\* value.
C1_AddThenWaitReturns ==
    \A w \in Waiters :
        exact[w] # None =>
            /\ wpc[w] # "KeyError"
            /\ wpc[w] = "returned" => message[w] = exact[w]

\* C2, as stated: after a "__cancel__", whatever addMessage calls follow,
\* exactly one wait fails with Cancelled: the pending cancellation ends only
\* by a wait failing, and no more waits fail than cancels were sent.
C2_ExactlyOneWaitFails ==
    [][/\ (cancelled /\ ~cancelled') => \E w \in Waiters : Failed(w)
       /\ nfail' <= ncancel']_vars

\* C2, amended: the flag a "__cancel__" set stays set until a wait observes
\* it, which clears it and fails with Cancelled, or until a "__start__" clears
\* it; a wait that fails leaves the flag false, a wait that finds the flag
\* clear does not fail, and no wait fails unless a "__cancel__" was sent.
C2_CancelUntilObservedOrStart ==
    [][/\ (cancelled /\ ~cancelled') =>
              \/ \E w \in Waiters : Failed(w)
              \/ ppc = "309" /\ ppc' = "idle"
       /\ \A w \in Waiters : Failed(w) => ~cancelled'
       /\ \A w \in Waiters :
              (wpc[w] \in {"check318", "check322"} /\ ~cancelled)
                  => wpc'[w] \notin {"clear319", "clear323", "Cancelled"}
       /\ nfail' > 0 => ncancel' > 0]_vars

\* C2 witness: one cancel was sent, one wait failed on it and a later wait of
\* the same context returned a value with the flag clear.
C2_Witness ==
    /\ ncancel = 1
    /\ nfail = 1
    /\ ~cancelled
    /\ wpc["w1"] = "returned"

\* C3: "__start__" leaves the store and the stash empty, and no wait returns
\* a value stored before a "__start__" that was processed while it waited.
C3_StartDropsPending ==
    [][/\ ppc' \in {"308", "309"} => dicts'[cur'] = EmptyDict
       /\ (ppc = "308" /\ ppc' = "309") => stash' = {}
       /\ \A w \in Waiters : ~stale'[w]]_vars

\* C4: a wait returns the value stored under str(id) when there is one, and
\* the wildcard's value otherwise.
C4_WildcardDelivery ==
    \A w \in Waiters :
        wpc[w] = "returned" =>
            message[w] = IF exact[w] # None THEN exact[w] ELSE wild[w]

\* C5: a wait that found an entry under str(id) removes only that entry: it
\* takes no "-1" entry out of the store.
C5_WildcardOnlyAsFallback ==
    \A w \in Waiters : exact[w] # None => wild[w] = None

\* C6: with one "__cancel__" and no other control message, at most one of the
\* polling waits fails with Cancelled.
C6_OneCancelOneWaiter ==
    (ncancel = 1 /\ nstart = 0) => nfail <= 1

\* C7: the value stored by one addMessage call is returned by at most one
\* waitForMessage call.
C7_AtMostOnce ==
    \A t \in Tags : delivered[t] <= 1

\* C7 witness: two waits competed for one wildcard entry; one returned it and
\* the other found it gone.
C7_Witness ==
    \E w1, w2 \in Waiters :
        /\ wpc[w1] = "returned" /\ wild[w1] # None
        /\ wpc[w2] = "KeyError"
        /\ nadd = 1

\* C8: last write wins: addMessage changes only the entry under str(id); a
\* value that was overwritten is never returned; and a wait that finds a
\* value that overwrote another returns it.
C8_LastWriteWins ==
    [][/\ nadd' # nadd =>
              \E k \in Keys :
                  \A j \in Keys \ {k} : dicts'[cur'][j] = dicts[cur][j]
       /\ \A w \in Waiters :
              /\ message'[w].tag \notin overwritten'
              /\ (exact'[w].over # 0 /\ wpc'[w] \in {"returned", "KeyError"})
                     => (wpc'[w] = "returned" /\ message'[w] = exact'[w])]_vars

\* C9, the documented reading of a payload: the parts between its commas,
\* each without its surrounding blanks, each read as an integer.
Commas(s) == {i \in 1..Len(s) : s[i] = ","}
Cut(s, j) ==
    IF j = 0 THEN 0
    ELSE IF j > Cardinality(Commas(s)) THEN Len(s) + 1
    ELSE CHOOSE i \in Commas(s) : Cardinality({c \in Commas(s) : c < i}) = j - 1
PartAt(s, j) == SubSeq(s, Cut(s, j - 1) + 1, Cut(s, j) - 1)
Trimmed(t) ==
    LET inked == {i \in 1..Len(t) : t[i] \notin Space}
    IN  IF inked = {} THEN <<>>
        ELSE SubSeq(t, CHOOSE i \in inked : \A j \in inked : i <= j,
                       CHOOSE i \in inked : \A j \in inked : i >= j)
Documented(msg, asList) ==
    LET n == Cardinality(Commas(msg)) + 1
    IN  IF asList
        THEN IF \A j \in 1..n : IntAccepts(Trimmed(PartAt(msg, j)))
             THEN [j \in 1..n |-> IntOf(Trimmed(PartAt(msg, j)))]
             ELSE <<1>>
        ELSE IF IntAccepts(Trimmed(msg)) THEN <<IntOf(Trimmed(msg))>> ELSE <<1>>

\* C9: what waitForMessage returns is the documented reading of the payload
\* it consumed under its asList: the list of the integers of the trimmed
\* parts, or [1]; the integer of the trimmed payload, or 1.
C9_ParseOrDefault ==
    \A w \in Waiters :
        wpc[w] = "returned" =>
            /\ result[w] = [list |-> wasList[w],
                            ints |-> Documented(message[w].val, wasList[w])]
            /\ (wasList[w] /\ message[w].val = <<"1", ",", " ", "2", ",", "3">>)
                   => result[w].ints = <<1, 2, 3>>
            /\ (wasList[w] /\ message[w].val = <<"a", "b", "c">>)
                   => result[w].ints = <<1>>
            /\ (~wasList[w] /\ message[w].val = <<"4", "2">>)
                   => result[w].ints = <<42>>
            /\ (~wasList[w] /\ message[w].val = <<"x">>)
                   => result[w].ints = <<1>>

\* C9 witness: a wait with asList returned [1, 2, 3] for the payload "1, 2,3".
C9_Witness ==
    \E w \in Waiters :
        /\ wpc[w] = "returned"
        /\ wasList[w]
        /\ message[w].val = <<"1", ",", " ", "2", ",", "3">>
        /\ result[w] = [list |-> TRUE, ints |-> <<1, 2, 3>>]

\* C10: a wait ends by returning a value or by failing with Cancelled, never
\* with another error.
C10_ValueOrCancelled ==
    \A w \in Waiters :
        /\ wpc[w] # "KeyError"
        /\ wpc[w] = "returned" => result[w].ints # <<>>

\* The steps of the polling loop of lines 317-321.
Polling == {"load_sid", "test_sid", "load_wild", "test_wild", "check318"}

\* C11: no timeout: a wait leaves its polling loop, and so returns or
\* fails, only if since it was called the store held an entry under str(id)
\* or under "-1" or the cancellation flag was set; until then it keeps
\* polling, and no wait ends before any addMessage call was made.
C11_NoTimeout ==
    \A w \in Waiters :
        /\ wpc[w] \notin Polling \cup {"idle"} => avail[w]
        /\ wpc[w] \in {"returned", "Cancelled", "KeyError"} => nadd + ncancel > 0

\* C11 witness: a wait for "1" went round the loop to the flag check of line
\* 318 with nothing to end on, although a value for another id was stored.
C11_Witness ==
    \E w \in Waiters :
        /\ wpc[w] = "check318"
        /\ ~avail[w]
        /\ ~cancelled
        /\ nadd > 0

\* C14: a "__cancel__" leaves the store empty and, when it is done, the flag
\* set; it changes no stash entry; and no wait returns, after the cancel, a
\* value the store held when the cancel emptied it.
C14_CancelEmptiesStore ==
    [][/\ (ppc = "idle" /\ ppc' = "305") =>
              /\ dicts'[cur'] = EmptyDict
              /\ stash' = stash
       /\ (ppc = "305" /\ ppc' = "idle") =>
              /\ cancelled'
              /\ dicts'[cur'] = EmptyDict
              /\ stash' = stash
       /\ \A w \in Waiters :
              (wpc[w] # "returned" /\ wpc'[w] = "returned")
                  => message'[w].tag \notin dropped']_vars

\* C15: cancellation takes priority over delivery: a wait that reads the
\* flag set, at line 318 or at line 322 with a value waiting for it, goes on
\* to clear the flag and fail with Cancelled, whatever the store holds; and a
\* wait that fails has popped nothing and leaves every dict as it was.
C15_CancelBeforeDelivery ==
    [][\A w \in Waiters :
           /\ (wpc[w] = "check318" /\ cancelled /\ wpc'[w] # wpc[w])
                  => wpc'[w] = "clear319"
           /\ (wpc[w] = "check322" /\ cancelled /\ wpc'[w] # wpc[w])
                  => wpc'[w] = "clear323"
           /\ (wpc[w] \in {"clear319", "clear323"} /\ wpc'[w] # wpc[w])
                  => (wpc'[w] = "Cancelled" /\ ~cancelled')
           /\ Failed(w) =>
                  /\ dicts' = dicts
                  /\ cur' = cur
                  /\ exact'[w] = None
                  /\ wild'[w] = None]_vars

\* C15 witness: after the only "__cancel__" a value was stored for the id a
\* wait polls; the wait found it, read the flag set at line 322 and is at the
\* raise of lines 323-324 with the value still in the store.
C15_Witness ==
    \E w \in Waiters :
        /\ wpc[w] = "clear323"
        /\ cancelled
        /\ ncancel = 1
        /\ nstart = 0
        /\ Has(dicts[cur], wid[w])
        /\ dicts[cur][wid[w]].tag \notin dropped

\* C12: a get_setting call that finds no settings file (none at load, or none
\* at the chosen path now) or finds one that does not hold valid JSON returns
\* the caller's default, raises nothing and prints exactly one diagnostic.
C12_MissingOrMalformedGivesDefault ==
    ret # "none" =>
        ((\/ loaded = "None"
          \/ atCall[PathOf(portable)].kind \in {"absent", "notjson", "notutf8"})
             => (ret = "default" /\ printed = 1))

\* C13: image_batch given images whose non-batch dimensions do not all agree
\* raises, yields no batch, and names in its message every input that
\* disagrees with another one; for the shapes (1,3,64,64) and (1,3,64,32) it
\* names both inputs.
C13_MismatchNamesInputs ==
    LET given == {i \in 1..Len(kwargs) : kwargs[i] # NoTensor}
        Involved(i) == \E j \in given : Tail(kwargs[j]) # Tail(kwargs[i])
        named == {batched.names[k] : k \in 1..Len(batched.names)}
    IN  (batched # NoBatch /\ \E i \in given : Involved(i)) =>
            /\ batched.raised = "ValueError"
            /\ batched.shape = <<>>
            /\ \A i \in given : Involved(i) => InputNames[i] \in named
            /\ kwargs = <<(<<1, 3, 64, 64>>), (<<1, 3, 64, 32>>)>>
                   => named = {"images_a", "images_b"}

\* C16: the settings path is resolved once: line 82 sets ConfigReader.portable
\* from the files that exist then (the standalone file first), nothing changes
\* it afterwards, a get_setting call opens no path but the one chosen at load,
\* and when none was chosen it opens nothing and returns its default, whatever
\* files exist by then.
C16_ResolvedOnce ==
    [][/\ (cpc = "load" /\ cpc' = "ready") =>
              portable' = IF files[DEFAULT_PATH].kind # "absent" THEN "False"
                          ELSE IF files[PORTABLE_PATH].kind # "absent" THEN "True"
                          ELSE "None"
       /\ cpc = "ready" => portable' = portable
       /\ cpc' = "ready" => portable' = loaded'
       /\ ret' # "none" =>
              /\ opened' \subseteq {PathOf(loaded')}
              /\ loaded' = "None" => (opened' = {} /\ ret' = "default")]_vars

\* C16 witness: no file existed at load; the standalone file appeared later,
\* holding the setting asked for; the call opened nothing and returned the
\* default.
C16_Witness ==
    /\ cpc = "ready"
    /\ loaded = "None"
    /\ atCall[DEFAULT_PATH].kind = "object"
    /\ setting_id \in atCall[DEFAULT_PATH].keys
    /\ ret = "default"
    /\ opened = {}

====
